---- MODULE Spec2Model ----
(***************************************************************************)
(* Model of sort_uniq_c (src/main.rs): a frequency counter over the lines  *)
(* of a file or of standard input, followed by a descending-by-count       *)
(* rendering as a table or as delimited text.                              *)
(*                                                                         *)
(* A char is a one-character string; a String is a sequence of chars.      *)
(***************************************************************************)
EXTENDS Integers, Sequences, FiniteSets

VARIABLES
    argv_file,   \* the positional FILE argument as typed, or Omitted
    character,   \* args.character : Option<char>
    delimiter,   \* args.delimiter : Option<char>
    file,        \* args.file : PathBuf, after the clap default
    tty,         \* what stdin().is_terminal() answers
    input,       \* what buf_reader.lines() yields: a sequence of io::Result<String>
    pos,         \* number of items already taken from the lines() iterator
    count,       \* the HashMap<String, usize> under construction
    ranked,      \* print_word_count_csv: entries sorted, not yet printed
    stdout,      \* the println! writes so far, one String per write
    table_out,   \* the tables handed to cli_table::print_stdout
    help,        \* TRUE once print_help() ran
    pc,          \* position of the process
    exit_code    \* process exit status, NoExit while running

vars == <<argv_file, character, delimiter, file, tty, input, pos, count,
          ranked, stdout, table_out, help, pc, exit_code>>

----
\* Bounds of the model

MaxLineLen == 1
MaxLines == 3

\* chars that can occur in an input line
Alphabet == {"a", ";"}
\* values tried for --character
CharacterArgs == {";"}
\* values tried for --delimiter
DelimiterArgs == {";", "1", "\n"}

None == "None"
Omitted == "Omitted"
Dash == "-"
\* paths tried for FILE, and the ones File::open succeeds on
Paths == {"data.txt", "missing.txt"}
FileSystem == {"data.txt"}

NoExit == -1
ExitHelp == 2
ExitPanic == 101

----
\* Strings

Digits == <<"0", "1", "2", "3", "4", "5", "6", "7", "8", "9">>

RECURSIVE to_string(_)
\* usize as Display: decimal, most significant digit first
to_string(n) ==
    IF n < 10 THEN <<Digits[n + 1]>>
    ELSE to_string(n \div 10) \o <<Digits[(n % 10) + 1]>>

RECURSIVE CharacterCountOther(_, _)
\* CharacterCount with the filter inverted: |&c| c != character
CharacterCountOther(line, c) ==
    IF line = <<>> THEN 0
    ELSE (IF Head(line) # c THEN 1 ELSE 0) + CharacterCountOther(Tail(line), c)

RECURSIVE CharacterCount(_, _)
\* line.chars().filter(|&c| c == character).count()
CharacterCount(line, c) ==
    IF line = <<>> THEN 0
    ELSE (IF Head(line) = c THEN 1 ELSE 0) + CharacterCount(Tail(line), c)

Strings(n) == UNION {[1..k -> Alphabet] : k \in 0..n}

Ok(s) == [ok |-> TRUE, line |-> s]
Err == [ok |-> FALSE, line |-> <<>>]
Items == {Ok(s) : s \in Strings(MaxLineLen)} \cup {Err}
Inputs == UNION {[1..k -> Items] : k \in 0..MaxLines}

----
\* The HashMap

EmptyMap == [k \in {} |-> 0]

\* Entry without and_modify: count.entry(key).or_insert(1)
EntryNoModify(map, key) ==
    IF key \in DOMAIN map
    THEN map
    ELSE [k \in DOMAIN map \cup {key} |-> IF k = key THEN 1 ELSE map[k]]

\* Entry starting from zero: count.entry(key).and_modify(|x| *x += 1).or_insert(0)
EntryOrInsertZero(map, key) ==
    IF key \in DOMAIN map
    THEN [map EXCEPT ![key] = @ + 1]
    ELSE [k \in DOMAIN map \cup {key} |-> IF k = key THEN 0 ELSE map[k]]

\* count.entry(key).and_modify(|x| *x += 1).or_insert(1)
Entry(map, key) ==
    IF key \in DOMAIN map
    THEN [map EXCEPT ![key] = @ + 1]
    ELSE [k \in DOMAIN map \cup {key} |-> IF k = key THEN 1 ELSE map[k]]

\* the orders in which into_iter() can yield the entries of a HashMap
IterOrders(map) ==
    LET n == Cardinality(DOMAIN map)
    IN  {[i \in 1..n |-> <<f[i], map[f[i]]>>] :
            f \in {g \in [1..n -> DOMAIN map] :
                     \A i, j \in 1..n : i # j => g[i] # g[j]}}

----
\* Ranking

\* Ord::cmp on usize
Cmp(x, y) == IF x < y THEN "Less" ELSE IF x = y THEN "Equal" ELSE "Greater"

\* ByCount with the operands in their natural order: Ord::cmp(&a.1, &b.1)
ByCountAscending(a, b) == Cmp(a[2], b[2])

\* the comparator closure |a, b| Ord::cmp(&b.1, &a.1)
ByCount(a, b) == Cmp(b[2], a[2])

RECURSIVE InsertSorted(_, _)
\* x goes behind every element that does not compare Greater than it
InsertSorted(s, x) ==
    IF s = <<>> THEN <<x>>
    ELSE IF ByCount(Head(s), x) = "Greater" THEN <<x>> \o s
    ELSE <<Head(s)>> \o InsertSorted(Tail(s), x)

RECURSIVE SortedBy(_)
\* Itertools::sorted_by: collect, then the stable Vec::sort_by
SortedBy(s) ==
    IF s = <<>> THEN <<>>
    ELSE InsertSorted(SortedBy(SubSeq(s, 1, Len(s) - 1)), s[Len(s)])

----
\* Rendering

\* FormatLine with the fields swapped: println!("{}{}{}", count, &delimiter, word)
FormatLineSwapped(word, d, n) == to_string(n) \o <<d>> \o word \o <<"\n">>

\* FormatLine with print! in place of println!
FormatLineNoNewline(word, d, n) == word \o <<d>> \o to_string(n)

\* println!("{}{}{}", word, &delimiter, count)
FormatLine(word, d, n) == word \o <<d>> \o to_string(n) \o <<"\n">>

WordLabel(c) == IF c # None THEN "Occurrences" ELSE "Word"

\* one table row: vec![word.cell(), count.cell().justify(Justify::Right)]
Row(e) == <<e[1], to_string(e[2])>>

Table(rows, c) ==
    [title |-> <<WordLabel(c), "Count">>,
     rows |-> [i \in 1..Len(rows) |-> Row(rows[i])]]

----
\* The process

\* #[arg(default_value = "-")] file: PathBuf
CliFile(arg) == IF arg = Omitted THEN Dash ELSE arg

Init ==
    /\ argv_file \in {Omitted, Dash} \cup Paths
    /\ character \in {None} \cup CharacterArgs
    /\ delimiter \in {None} \cup DelimiterArgs
    /\ file = CliFile(argv_file)
    /\ tty \in BOOLEAN
    /\ input \in Inputs
    /\ (file \in Paths \ FileSystem => input = <<>>)
    /\ pos = 0
    /\ count = EmptyMap
    /\ ranked = <<>>
    /\ stdout = <<>>
    /\ table_out = <<>>
    /\ help = FALSE
    /\ pc = "main"
    /\ exit_code = NoExit

Args == <<argv_file, character, delimiter, file, tty, input>>

\* main_help without the guard: stdin is read although it is a terminal
main_help_no_exit ==
    /\ pc = "main"
    /\ file = Dash
    /\ tty
    /\ pc' = "count"
    /\ UNCHANGED <<Args, pos, count, ranked, stdout, table_out, help, exit_code>>

\* main, file == "-" and stdin is a terminal: print_help(), exit(2)
main_help ==
    /\ pc = "main"
    /\ file = Dash
    /\ tty
    /\ help' = TRUE
    /\ pc' = "exited"
    /\ exit_code' = ExitHelp
    /\ UNCHANGED <<Args, pos, count, ranked, stdout, table_out>>

\* main, file == "-" and stdin is not a terminal: BufReader over stdin
main_stdin ==
    /\ pc = "main"
    /\ file = Dash
    /\ ~tty
    /\ pc' = "count"
    /\ UNCHANGED <<Args, pos, count, ranked, stdout, table_out, help, exit_code>>

\* main, a path: File::open(&file).unwrap() succeeds
main_file ==
    /\ pc = "main"
    /\ file # Dash
    /\ file \in FileSystem
    /\ pc' = "count"
    /\ UNCHANGED <<Args, pos, count, ranked, stdout, table_out, help, exit_code>>

\* main, a path: File::open(&file).unwrap() panics
main_file_panic ==
    /\ pc = "main"
    /\ file # Dash
    /\ file \notin FileSystem
    /\ pc' = "exited"
    /\ exit_code' = ExitPanic
    /\ UNCHANGED <<Args, pos, count, ranked, stdout, table_out, help>>

\* HasNext of a loop that never runs
HasNextNever == FALSE

\* the iterator has items left
HasNext == pos < Len(input)

\* one iteration of the loop of word_count_in_buf_reader
word_count_in_buf_reader ==
    /\ pc = "count"
    /\ character = None
    /\ HasNext
    /\ input[pos + 1].ok
    /\ count' = Entry(count, input[pos + 1].line)
    /\ pos' = pos + 1
    /\ UNCHANGED <<Args, ranked, stdout, table_out, help, pc, exit_code>>

\* one iteration of the loop of character_count_in_buf_reader
character_count_in_buf_reader ==
    /\ pc = "count"
    /\ character # None
    /\ HasNext
    /\ input[pos + 1].ok
    /\ count' = Entry(count, to_string(CharacterCount(input[pos + 1].line, character)))
    /\ pos' = pos + 1
    /\ UNCHANGED <<Args, ranked, stdout, table_out, help, pc, exit_code>>

\* line_unwrap_panic with the failing line skipped: lines().flatten()
line_skip ==
    /\ pc = "count"
    /\ pos < Len(input)
    /\ ~input[pos + 1].ok
    /\ pos' = pos + 1
    /\ UNCHANGED <<Args, count, ranked, stdout, table_out, help, pc, exit_code>>

\* line.unwrap() on an Err item, in either loop
line_unwrap_panic ==
    /\ pc = "count"
    /\ HasNext
    /\ ~input[pos + 1].ok
    /\ pos' = pos + 1
    /\ pc' = "exited"
    /\ exit_code' = ExitPanic
    /\ UNCHANGED <<Args, count, ranked, stdout, table_out, help>>

\* lines() is exhausted: the loop ends and the map is returned to main
count_return ==
    /\ pc = "count"
    /\ ~HasNext
    /\ pc' = "render"
    /\ UNCHANGED <<Args, pos, count, ranked, stdout, table_out, help, exit_code>>

\* print_word_count_table, then main returns
print_word_count_table ==
    /\ pc = "render"
    /\ delimiter = None
    /\ \E order \in IterOrders(count) :
          table_out' = Append(table_out, Table(SortedBy(order), character))
    /\ pc' = "exited"
    /\ exit_code' = 0
    /\ UNCHANGED <<Args, pos, count, ranked, stdout, help>>

\* print_word_count_csv with a header line written first
print_word_count_csv_header ==
    /\ pc = "render"
    /\ delimiter # None
    /\ \E order \in IterOrders(count) : ranked' = SortedBy(order)
    /\ stdout' = <<<<"w", "o", "r", "d", delimiter, "c", "o", "u", "n", "t", "\n">>>>
    /\ pc' = "csv"
    /\ UNCHANGED <<Args, pos, count, table_out, help, exit_code>>

\* print_word_count_csv: into_iter().sorted_by(..)
print_word_count_csv ==
    /\ pc = "render"
    /\ delimiter # None
    /\ \E order \in IterOrders(count) : ranked' = SortedBy(order)
    /\ pc' = "csv"
    /\ UNCHANGED <<Args, pos, count, stdout, table_out, help, exit_code>>

\* print_word_count_csv: one step of for_each
csv_println ==
    /\ pc = "csv"
    /\ ranked # <<>>
    /\ stdout' = Append(stdout, FormatLine(Head(ranked)[1], delimiter, Head(ranked)[2]))
    /\ ranked' = Tail(ranked)
    /\ UNCHANGED <<Args, pos, count, table_out, help, pc, exit_code>>

\* print_word_count_csv: for_each is through, main returns
csv_return ==
    /\ pc = "csv"
    /\ ranked = <<>>
    /\ pc' = "exited"
    /\ exit_code' = 0
    /\ UNCHANGED <<Args, pos, count, ranked, stdout, table_out, help>>

Next ==
    \/ main_help
    \/ main_stdin
    \/ main_file
    \/ main_file_panic
    \/ word_count_in_buf_reader
    \/ character_count_in_buf_reader
    \/ line_unwrap_panic
    \/ count_return
    \/ print_word_count_table
    \/ print_word_count_csv
    \/ csv_println
    \/ csv_return

Spec == Init /\ [][Next]_vars

TypeOK ==
    /\ pos \in 0..Len(input)
    /\ pc \in {"main", "count", "render", "csv", "exited"}
    /\ exit_code \in {NoExit, 0, ExitHelp, ExitPanic}
    /\ help \in BOOLEAN

----
\* Vocabulary of the properties

\* the map has been returned to main
Counted == pc \in {"render", "csv"} \/ (pc = "exited" /\ exit_code = 0)

\* the lines taken from the iterator so far
ConsumedIdx == {i \in 1..pos : input[i].ok}

\* number of occurrences of the string k among the lines consumed
Times(k) == Cardinality({i \in ConsumedIdx : input[i].line = k})

\* number of positions of s that hold c
Occurrences(s, c) == Cardinality({j \in 1..Len(s) : s[j] = c})

DigitValue(ch) == CHOOSE d \in 0..9 : Digits[d + 1] = ch

IsDigit(ch) == \E d \in 0..9 : Digits[d + 1] = ch

\* a decimal numeral without sign and without superfluous leading zero
IsDecimal(s) ==
    /\ Len(s) >= 1
    /\ \A j \in 1..Len(s) : IsDigit(s[j])
    /\ (Len(s) > 1 => s[1] # "0")

RECURSIVE DecimalValue(_)
DecimalValue(s) ==
    IF s = <<>> THEN 0
    ELSE 10 * DecimalValue(SubSeq(s, 1, Len(s) - 1)) + DigitValue(s[Len(s)])

RECURSIVE SumOver(_, _)
SumOver(map, keys) ==
    IF keys = {} THEN 0
    ELSE LET k == CHOOSE x \in keys : TRUE
         IN  map[k] + SumOver(map, keys \ {k})

Total(map) == SumOver(map, DOMAIN map)

----
\* C1: in word mode the returned table has exactly the distinct lines of the
\* input as keys, maps each to the number of times it occurs in the input,
\* and its counts sum to the number of input lines.
C1_WordCount ==
    (character = None /\ Counted) =>
        /\ pos = Len(input)
        /\ DOMAIN count = {input[i].line : i \in 1..Len(input)}
        /\ \A k \in DOMAIN count :
              count[k] = Cardinality({i \in 1..Len(input) : input[i].line = k})
        /\ Total(count) = Len(input)

C1_Witness ==
    /\ character = None
    /\ Counted
    /\ Cardinality(DOMAIN count) >= 2
    /\ \E k \in DOMAIN count : count[k] >= 2

\* C2: in character mode every line contributes the decimal string of its
\* number of occurrences of the target character, and the returned table maps
\* each such value to the number of lines that produced it.
C2_CharacterCount ==
    (character # None /\ Counted) =>
        /\ pos = Len(input)
        /\ \A k \in DOMAIN count : IsDecimal(k)
        /\ \A i \in 1..Len(input) :
              \E k \in DOMAIN count :
                 DecimalValue(k) = Occurrences(input[i].line, character)
        /\ \A k \in DOMAIN count :
              count[k] = Cardinality({i \in 1..Len(input) :
                            Occurrences(input[i].line, character) = DecimalValue(k)})
        /\ Total(count) = Len(input)

C2_Witness ==
    /\ character # None
    /\ Counted
    /\ Cardinality(DOMAIN count) >= 2
    /\ \E k \in DOMAIN count : count[k] >= 2 /\ DecimalValue(k) >= 1

\* C10: the table starts empty; processing a line sets the entry of that
\* line's Record to 1 if absent and otherwise adds exactly 1 to it, and leaves
\* every other entry alone; no other step touches the table; every stored
\* count is positive and the counts sum to the number of lines consumed.
RecordOf(line) ==
    IF character = None THEN line
    ELSE CHOOSE s \in {to_string(n) : n \in 0..Len(line)} :
            DecimalValue(s) = Occurrences(line, character)

C10_Step ==
    IF pc = "count" /\ pc' = "count" /\ pos' # pos
    THEN LET r == RecordOf(input[pos + 1].line)
         IN  /\ pos' = pos + 1
             /\ DOMAIN count' = DOMAIN count \cup {r}
             /\ count'[r] = (IF r \in DOMAIN count THEN count[r] + 1 ELSE 1)
             /\ \A k \in DOMAIN count : k # r => count'[k] = count[k]
    ELSE count' = count

C10_State ==
    /\ (pc = "main" => count = EmptyMap)
    /\ \A k \in DOMAIN count : count[k] >= 1
    /\ Total(count) = Cardinality(ConsumedIdx)

C10_Incremental == []C10_State /\ [][C10_Step]_vars

C10_Witness ==
    /\ pc = "count"
    /\ pos = 3
    /\ Cardinality(DOMAIN count) = 2

----
\* Vocabulary of the rendering properties

Finished == pc = "exited" /\ exit_code = 0

RECURSIVE Flatten(_)
\* the byte stream made of the writes
Flatten(ws) == IF ws = <<>> THEN <<>> ELSE Head(ws) \o Flatten(Tail(ws))

FirstIndex(s, ch) == CHOOSE i \in 1..Len(s) : s[i] = ch /\ \A j \in 1..(i - 1) : s[j] # ch

Contains(s, ch) == \E i \in 1..Len(s) : s[i] = ch

RECURSIVE Split(_, _)
\* the fields of s between the occurrences of ch
Split(s, ch) ==
    IF ~Contains(s, ch) THEN <<s>>
    ELSE LET i == FirstIndex(s, ch)
         IN  <<SubSeq(s, 1, i - 1)>> \o Split(SubSeq(s, i + 1, Len(s)), ch)

RECURSIVE SplitLines(_)
\* the lines of a text, each ended by a newline (the last one possibly not)
SplitLines(s) ==
    IF s = <<>> THEN <<>>
    ELSE IF ~Contains(s, "\n") THEN <<s>>
    ELSE LET i == FirstIndex(s, "\n")
         IN  <<SubSeq(s, 1, i - 1)>> \o SplitLines(SubSeq(s, i + 1, Len(s)))

HeaderLine(d) == <<"w", "o", "r", "d", d, "c", "o", "u", "n", "t", "\n">>

\* w is the write <k><d><decimal of n><newline>
IsEntryLine(w, k, d, n) ==
    /\ Len(w) >= Len(k) + 3
    /\ SubSeq(w, 1, Len(k)) = k
    /\ w[Len(k) + 1] = d
    /\ w[Len(w)] = "\n"
    /\ LET num == SubSeq(w, Len(k) + 2, Len(w) - 1)
       IN  IsDecimal(num) /\ DecimalValue(num) = n

\* every entry of the table is written by exactly one of the writes ws
OneLinePerEntry(ws, d) ==
    /\ Len(ws) = Cardinality(DOMAIN count)
    /\ \A k \in DOMAIN count :
          Cardinality({i \in 1..Len(ws) : IsEntryLine(ws[i], k, d, count[k])}) = 1

\* C3 as stated: a header line word<d>count, then one line per entry.
C3_Original ==
    (delimiter # None /\ Finished) =>
        /\ stdout # <<>>
        /\ Head(stdout) = HeaderLine(delimiter)
        /\ OneLinePerEntry(Tail(stdout), delimiter)

\* C3 amended: with a delimiter d the output is exactly one newline-terminated
\* line <Record><d><count> per table entry, d being the separator on every
\* line, and no header line and no table is written.
C3_Delimited ==
    (delimiter # None /\ Finished) =>
        /\ OneLinePerEntry(stdout, delimiter)
        /\ table_out = <<>>

C3_Witness ==
    /\ delimiter = ";"
    /\ Finished
    /\ Cardinality(DOMAIN count) >= 2
    /\ \E k \in DOMAIN count : count[k] = 2

\* C4 as stated: on empty input the delimited output is exactly the header line
\* and the table output is the header without data rows.
C4_Original ==
    (input = <<>> /\ Finished) =>
        /\ (delimiter # None => stdout = <<HeaderLine(delimiter)>>)
        /\ (delimiter = None =>
               /\ Len(table_out) = 1
               /\ table_out[1].rows = <<>>)

\* C4 amended: on empty input the program succeeds; in delimited format it
\* writes nothing at all, in table format one table with the two-cell title
\* and no data rows.
C4_Empty ==
    (input = <<>> /\ pc = "exited" /\ file \in FileSystem \cup {Dash} /\ ~help) =>
        /\ exit_code = 0
        /\ count = EmptyMap
        /\ stdout = <<>>
        /\ (delimiter # None => table_out = <<>>)
        /\ (delimiter = None =>
               /\ Len(table_out) = 1
               /\ table_out[1].rows = <<>>
               /\ table_out[1].title =
                     <<IF character = None THEN "Word" ELSE "Occurrences", "Count">>)

C4_Witness ==
    /\ input = <<>>
    /\ Finished
    /\ delimiter # None

\* C5: in both formats the entries are emitted in non-increasing order of
\* count.
RECURSIVE InRankOrder(_, _, _)
\* the writes from the i-th on can be attributed to distinct entries not in
\* used, with counts that never exceed last and never increase
InRankOrder(i, used, last) ==
    \/ i > Len(stdout)
    \/ \E k \in DOMAIN count \ used :
          /\ IsEntryLine(stdout[i], k, delimiter, count[k])
          /\ count[k] <= last
          /\ InRankOrder(i + 1, used \cup {k}, count[k])

C5_RankOrder ==
    /\ (delimiter # None => InRankOrder(1, {}, Len(input)))
    /\ \A t \in 1..Len(table_out) :
          LET rows == table_out[t].rows
          IN  /\ Len(rows) = Cardinality(DOMAIN count)
              /\ \A i \in 1..Len(rows) :
                    /\ rows[i][1] \in DOMAIN count
                    /\ IsDecimal(rows[i][2])
                    /\ DecimalValue(rows[i][2]) = count[rows[i][1]]
              /\ \A i, j \in 1..Len(rows) :
                    i < j => DecimalValue(rows[i][2]) >= DecimalValue(rows[j][2])

C5_Witness ==
    /\ Finished
    /\ Len(table_out) = 1
    /\ Len(table_out[1].rows) >= 2
    /\ table_out[1].rows[1][2] # table_out[1].rows[2][2]

\* C6: reading the delimited output back
Fields == [i \in 1..Len(SplitLines(Flatten(stdout))) |->
              Split(SplitLines(Flatten(stdout))[i], delimiter)]

IsPair(fs) == Len(fs) = 2 /\ IsDecimal(fs[2])

RoundTrip ==
    /\ Len(Fields) = Cardinality(DOMAIN count)
    /\ \A i \in 1..Len(Fields) : IsPair(Fields[i])
    /\ {<<Fields[i][1], DecimalValue(Fields[i][2])>> : i \in 1..Len(Fields)}
          = {<<k, count[k]>> : k \in DOMAIN count}

NoRecordHasDelimiter == \A k \in DOMAIN count : ~Contains(k, delimiter)

\* C6 as stated: whenever no Record contains the delimiter, splitting each
\* output line on the delimiter recovers exactly the pairs of the table.
C6_Original ==
    (delimiter # None /\ Finished /\ NoRecordHasDelimiter) => RoundTrip

\* C6 amended: whenever no Record contains the delimiter and the delimiter is
\* neither a decimal digit nor the newline character, splitting each output
\* line on the delimiter recovers exactly the pairs of the table, each once.
C6_RoundTrip ==
    (/\ delimiter # None
     /\ Finished
     /\ NoRecordHasDelimiter
     /\ ~IsDigit(delimiter)
     /\ delimiter # "\n") => RoundTrip

C6_Witness ==
    /\ delimiter = ";"
    /\ Finished
    /\ NoRecordHasDelimiter
    /\ Cardinality(DOMAIN count) >= 2
    /\ \E k \in DOMAIN count : count[k] = 2

----
\* Vocabulary of the error-handling properties

NothingRendered == stdout = <<>> /\ table_out = <<>> /\ ranked = <<>>

StdinSelected == argv_file \in {Omitted, Dash}

\* the items before the first one that fails to decode (all, if none fails)
FirstErr ==
    IF \E i \in 1..Len(input) : ~input[i].ok
    THEN CHOOSE i \in 1..Len(input) : ~input[i].ok /\ \A j \in 1..(i - 1) : input[j].ok
    ELSE Len(input) + 1

\* C7: whenever standard input is selected (FILE omitted or -) and is an
\* interactive terminal, the process prints the help and exits with status 2
\* in every mode, having read no line, counted nothing and rendered nothing;
\* with a real path the terminal state has no effect: no help, no status 2.
C7_TerminalGuard ==
    /\ (StdinSelected /\ tty /\ pc # "main") =>
           /\ pc = "exited"
           /\ exit_code = 2
           /\ help
           /\ pos = 0
           /\ count = EmptyMap
           /\ NothingRendered
    /\ (~(StdinSelected /\ tty)) => (~help /\ exit_code # 2)

C7_Witness ==
    /\ argv_file = Omitted
    /\ tty
    /\ character # None
    /\ delimiter # None
    /\ input # <<>>
    /\ pc = "exited"

\* C8: if the input file cannot be opened the run ends before any line is
\* counted, and if a line fails to decode counting ends at the first such
\* line; in both cases the exit status is non-zero and nothing, not even a
\* partial result, is written to standard output.
C8_FailFast ==
    /\ (argv_file \in Paths \ FileSystem /\ pc # "main") =>
           /\ pc = "exited"
           /\ exit_code \notin {NoExit, 0}
           /\ pos = 0
           /\ count = EmptyMap
           /\ NothingRendered
    /\ pos <= FirstErr
    /\ (pos = FirstErr) =>
           /\ pc = "exited"
           /\ exit_code \notin {NoExit, 0}
           /\ NothingRendered
           /\ Total(count) = FirstErr - 1

C8_Witness ==
    /\ pc = "exited"
    /\ pos = FirstErr
    /\ pos >= 2
    /\ Total(count) = pos - 1
    /\ delimiter # None

\* C9: result output is first written only after the input has been read to
\* its end; no line is written while unread lines remain; the input is
\* consumed once and in order, one item per step.
C9_State ==
    (stdout # <<>> \/ table_out # <<>> \/ pc \in {"render", "csv"}) =>
        /\ pos = Len(input)
        /\ Total(count) = Len(input)

C9_Step ==
    /\ pos' = pos \/ (pos' = pos + 1 /\ pc = "count" /\ NothingRendered)
    /\ (stdout' # stdout \/ table_out' # table_out) => pos = Len(input) /\ pos' = pos

C9_NoIncrementalOutput == []C9_State /\ [][C9_Step]_vars

C9_Witness ==
    /\ Len(input) = 3
    /\ Len(stdout) = 1
    /\ pc = "csv"
    /\ ranked # <<>>

====
